---- MODULE Spec2Model ----
(***************************************************************************)
(* Trading orchestrator (trading-agents/orchestrator), its Firestore        *)
(* session manager, and the stock-trader execution service.                 *)
(*                                                                          *)
(* A workflow request (POST /trading-workflow) is an async handler: it      *)
(* runs without interruption between two awaits, so it is modelled as       *)
(* three atomic segments: Start (up to the await of the analysis call),     *)
(* AnalysisResponse (up to the await of the trade call, or to the return)   *)
(* and TradeResponse (up to the return).  Requests of different callers     *)
(* interleave at the awaits and share the Firestore collections only.       *)
(*                                                                          *)
(* Strings are TLA+ strings and identifiers are built by concatenation as   *)
(* the f-strings build them.  Confidence is in hundredths (0.7 is 70).      *)
(* Time is a tick counter; int(datetime.now().timestamp()) is the tick      *)
(* divided by TicksPerSecond.  All clock reads of one segment return the    *)
(* same tick; the clock advances between segments.                          *)
(***************************************************************************)
EXTENDS Integers, Sequences, FiniteSets, TLC

\* ------------------------------------------------------------------ bounds
MaxTime == 1            \* the clock runs over ticks 0..MaxTime
TicksPerSecond == 1     \* datetime.now() values per whole second
MaxConfidence == 100    \* confidence 1.0, in hundredths

\* The requests handled, possibly concurrently (two of them).
Procs == {1, 2}

Users == {"u1"}
Symbols == {"AAPL"}
Quantities == {100}
\* session_id of a request: "" stands for an absent (None) or empty id, which
\* `request.session_id or ...` treats alike.
SessionIdInputs == {"", "s1"}
Recommendations == {"BUY", "SELL", "HOLD", "STRONG_BUY"}
Confidences == {70, 85}

\* Python None, for values that are a dict or None.
None_ == [is_none |-> TRUE]

\* dict.get(key, default)
Get(d, key, default) == IF key \in DOMAIN d THEN d[key] ELSE default

VARIABLES
    now,          \* current time, in ticks
    session_manager, \* TRUE iff the SessionManager was constructed (PROJECT_ID set)
    MARKET_ANALYST_URL, \* TRUE iff the environment variable is non-empty
    STOCK_TRADER_URL,   \* TRUE iff the environment variable is non-empty
    sessions,     \* collection trading_sessions: document id -> document
    analyses,     \* collection analysis_history: document id -> document
    trades,       \* collection trade_hostory:    document id -> document
    req,          \* per request: the handler's position and locals
    call          \* one call of a function checked on its own: arguments, result

\* The process-wide configuration, fixed at startup.
config == <<session_manager, MARKET_ANALYST_URL, STOCK_TRADER_URL>>

vars == <<now, config, sessions, analyses, trades, req, call>>

\* int(datetime.now().timestamp()), printed into an identifier
UnixTs(t) == ToString(t \div TicksPerSecond)

\* ------------------------------------------------------- session manager
\* One collection is a function from document ids to documents; set()
\* creates or replaces the document.
DocSet(coll, id, doc) == (id :> doc) @@ coll

\* firestore.ArrayUnion: adds the elements that are not already in the array.
ArrayUnion(arr, elem) ==
    IF \E i \in 1..Len(arr) : arr[i] = elem THEN arr ELSE Append(arr, elem)

\* SessionManager.create_session: builds a fresh document and set()s it.
create_session(S, session_id, user_id, initial_data, t) ==
    DocSet(S, session_id,
           [session_id |-> session_id,
            user_id |-> user_id,
            created_at |-> t,
            updated_at |-> t,
            status |-> "active",
            initial_data |-> initial_data,
            workflow_steps |-> <<>>,
            metadata |-> <<>>])

\* DocumentReference.update(): the fields are merged into the document; on a
\* missing document it raises NotFound (modelled by the caller's guard).
DocUpdate(doc, fields) == fields @@ doc

\* update_session written with set(..., merge=True) in place of update(): the
\* fields are merged into the document, which is created when it is missing.
update_session_merge(S, session_id, update_data, t, ok) ==
    IF ok
    THEN [result |-> TRUE,
          S |-> DocSet(S, session_id,
                       DocUpdate(IF session_id \in DOMAIN S
                                 THEN S[session_id] ELSE <<>>,
                                 update_data @@ [updated_at |-> t]))]
    ELSE [result |-> FALSE, S |-> S]

\* SessionManager.update_session: TRUE/FALSE result and the new collection.
\* `ok` is FALSE when the Firestore call raises.
update_session(S, session_id, update_data, t, ok) ==
    IF ok /\ session_id \in DOMAIN S
    THEN [result |-> TRUE,
          S |-> [S EXCEPT ![session_id] =
                    DocUpdate(@, update_data @@ [updated_at |-> t])]]
    ELSE [result |-> FALSE, S |-> S]

\* A workflow step as stored: the payload and the timestamp.
Step(tag, detail, t) == [step |-> tag, detail |-> detail, timestamp |-> t]

\* SessionManager.add_workflow_step
add_workflow_step(S, session_id, tag, detail, t, ok) ==
    IF ok /\ session_id \in DOMAIN S
    THEN [result |-> TRUE,
          S |-> [S EXCEPT ![session_id] =
                    DocUpdate(@, [workflow_steps |->
                                     ArrayUnion(@.workflow_steps, Step(tag, detail, t)),
                                  updated_at |-> t])]]
    ELSE [result |-> FALSE, S |-> S]

\* SessionManager.save_analysis: the id and the new collection.
save_analysis_id(session_id, symbol, t) ==
    session_id \o "-" \o symbol \o "-" \o UnixTs(t)

save_analysis(A, session_id, symbol, analysis_data, t) ==
    DocSet(A, save_analysis_id(session_id, symbol, t),
           [analysis_id |-> save_analysis_id(session_id, symbol, t),
            session_id |-> session_id,
            symbol |-> symbol,
            analysis_data |-> analysis_data,
            created_at |-> t])

\* SessionManager.save_trade
save_trade_id(trade_data, t) == Get(trade_data, "trade_id", "trade-" \o UnixTs(t))

save_trade(T, session_id, trade_data, t) ==
    DocSet(T, save_trade_id(trade_data, t),
           [trade_id |-> save_trade_id(trade_data, t),
            session_id |-> session_id,
            trade_data |-> trade_data,
            created_at |-> t])


\* ------------------------------------------------------ reasoning provider
\* One call of GenerativeModel.generate_content: it raises, or it answers with
\* a text (a sequence of characters).
LLMTexts == { <<"Y", "E", "S", " ", "-">>,
              <<" ", "y", "e", "s">>,
              <<"N", "O", " ", "-">>,
              <<"Y", "E">>,
              <<>> }
LLMOutcomes == { [raised |-> TRUE, text |-> <<>>] }
               \cup { [raised |-> FALSE, text |-> t] : t \in LLMTexts }

\* str.strip(): leading and trailing blanks removed
RECURSIVE Strip(_)
Strip(s) ==
    IF s = <<>> THEN s
    ELSE IF Head(s) = " " THEN Strip(Tail(s))
    ELSE IF s[Len(s)] = " " THEN Strip(SubSeq(s, 1, Len(s) - 1))
    ELSE s

\* str.upper(), on the characters the answers use
UpperChar(c) ==
    CASE c = "y" -> "Y" [] c = "e" -> "E" [] c = "s" -> "S"
      [] c = "n" -> "N" [] c = "o" -> "O" [] OTHER -> c
Upper(s) == [i \in 1..Len(s) |-> UpperChar(s[i])]

\* str.startswith(prefix)
StartsWith(s, prefix) ==
    Len(s) >= Len(prefix) /\ SubSeq(s, 1, Len(prefix)) = prefix

\* The fallback's threshold, 0.7, in hundredths.
FallbackThreshold == 70

\* decide_execution_with_llm with a slip in the fallback: it compares with
\* >=, so a confidence of exactly 0.7 executes.
decide_execution_inclusive(analysis_data, quantity, auto_execute, llm) ==
    IF ~auto_execute THEN FALSE
    ELSE IF ~llm.raised
         THEN StartsWith(Upper(Strip(llm.text)), <<"Y", "E", "S">>)
         ELSE Get(analysis_data, "confidence", 0) >= FallbackThreshold
              /\ Get(analysis_data, "recommendation", "None") # "HOLD"

\* decide_execution_with_llm without the fallback rule: a failed reasoning
\* call declines.
decide_execution_no_fallback(analysis_data, quantity, auto_execute, llm) ==
    IF ~auto_execute THEN FALSE
    ELSE IF ~llm.raised
         THEN StartsWith(Upper(Strip(llm.text)), <<"Y", "E", "S">>)
         ELSE FALSE

\* decide_execution_with_llm(analysis_data, quantity, auto_execute), with the
\* outcome `llm` of its generate_content call.
decide_execution_with_llm(analysis_data, quantity, auto_execute, llm) ==
    IF ~auto_execute THEN FALSE
    ELSE IF ~llm.raised
         THEN StartsWith(Upper(Strip(llm.text)), <<"Y", "E", "S">>)
         ELSE Get(analysis_data, "confidence", 0) > FallbackThreshold
              /\ Get(analysis_data, "recommendation", "None") # "HOLD"

\* --------------------------------------------------------- stock trader
\* Price used when the request carries none (the orchestrator sends None).
DefaultPrice == 150

\* execute_trade whose HOLD branch echoes the requested quantity.
execute_trade_hold_echo(symbol, action, quantity, t) ==
    IF action = "HOLD"
    THEN [trade_id |-> "HOLD-" \o ToString(t),
          symbol |-> symbol,
          action |-> "HOLD",
          quantity |-> quantity,
          price |-> 0,
          status |-> "NO_ACTION"]
    ELSE IF action \notin {"BUY", "SELL"}
    THEN [error |-> "Invalid action. Use BUY, SELL, or HOLD"]
    ELSE [trade_id |-> action \o "-" \o symbol \o "-" \o UnixTs(t),
          symbol |-> symbol,
          action |-> action,
          quantity |-> quantity,
          price |-> DefaultPrice,
          status |-> "EXECUTED",
          total_value |-> DefaultPrice * quantity]

\* execute_trade(request) of the stock-trader service, at its clock value t.
\* The risk assessment text (an LLM answer or the fixed fallback sentence)
\* does not influence any other field and is left out.
execute_trade(symbol, action, quantity, t) ==
    IF action = "HOLD"
    THEN [trade_id |-> "HOLD-" \o ToString(t),
          symbol |-> symbol,
          action |-> "HOLD",
          quantity |-> 0,
          price |-> 0,
          status |-> "NO_ACTION"]
    ELSE IF action \notin {"BUY", "SELL"}
    THEN [error |-> "Invalid action. Use BUY, SELL, or HOLD"]
    ELSE [trade_id |-> action \o "-" \o symbol \o "-" \o UnixTs(t),
          symbol |-> symbol,
          action |-> action,
          quantity |-> quantity,
          price |-> DefaultPrice,
          status |-> "EXECUTED",
          total_value |-> DefaultPrice * quantity]

\* ------------------------------------------------------------ providers
\* What the POST to the Analysis Provider produces: a 2xx answer with a
\* recommendation and a confidence, a non-2xx answer (raise_for_status
\* raises), a transport failure or timeout (client.post raises), or a 2xx
\* answer without the keys (the subscript at the first print raises).
AnalysisResponses ==
    { [kind |-> "ok", recommendation |-> r, confidence |-> c] :
          r \in Recommendations, c \in Confidences }
    \cup { [kind |-> k, recommendation |-> "None", confidence |-> 0] :
          k \in {"http_error", "transport", "malformed"} }

\* What the POST to the Execution Provider produces.
TradeResponses == {"ok", "http_error", "transport"}

\* Firestore calls of the workflow that may raise.
StartWrites == {"create_session", "step_workflow_started", "step_analysis_requested"}
AnalysisWrites == {"save_analysis", "step_analysis_completed",
                   "step_trade_requested", "update_session"}
TradeWrites == {"save_trade", "step_trade_executed", "update_session"}

\* ------------------------------------------------------------- requests
\* No function is being checked on its own.
NoCall == [fn |-> "none"]

IdleReq ==
    [pc |-> "idle", user_id |-> "", symbol |-> "", quantity |-> 0,
     auto_execute |-> FALSE, session_id |-> "",
     analysis_data |-> None_, reasoning |-> "not_called",
     should_execute |-> FALSE, trade_data |-> None_,
     analysis_id |-> "", trade_id |-> "",
     workflow_status |-> "", error |-> "none",
     analysis_calls |-> 0, trade_calls |-> 0,
     via |-> "", engine_calls |-> 0,
     intent_answer |-> None_, parsed_intent |-> None_, response |-> ""]

Init ==
    /\ now = 0
    /\ session_manager \in BOOLEAN
    /\ MARKET_ANALYST_URL \in BOOLEAN
    /\ STOCK_TRADER_URL \in BOOLEAN
    /\ sessions = <<>>
    /\ analyses = <<>>
    /\ trades = <<>>
    /\ req = [p \in Procs |-> IdleReq]
    /\ call = NoCall

\* The clock advances.
Tick ==
    /\ now < MaxTime
    /\ now' = now + 1
    /\ UNCHANGED <<config, sessions, analyses, trades, req, call>>

\* The session id of a workflow request (first statement of orchestrate_trading).
WorkflowSessionId(session_id, user_id, symbol, t) ==
    IF session_id # "" THEN session_id
    ELSE "session-" \o user_id \o "-" \o symbol \o "-" \o UnixTs(t)

\* The handler ends with an exception: HTTP 500 to the caller.
Fail(r, cause) == [r EXCEPT !.pc = "error", !.error = cause]

\* endpoints_missing with `and` in place of `or`: the request is refused only
\* when both endpoints are missing.
endpoints_missing_both(market_analyst_url, stock_trader_url) ==
    ~market_analyst_url /\ ~stock_trader_url

\* `if not MARKET_ANALYST_URL or not STOCK_TRADER_URL`
endpoints_missing(market_analyst_url, stock_trader_url) ==
    ~market_analyst_url \/ ~stock_trader_url

\* orchestrate_trading, from its entry to the await of the analysis call, for
\* request p with locals r and the fields of its TradingRequest.
\* F: the Firestore calls of this segment that raise.
orchestrate_trading(p, F, r, user_id, symbol, quantity, session_id, auto_execute) ==
    LET sid == WorkflowSessionId(session_id, user_id, symbol, now)
        r0 == [r EXCEPT !.user_id = user_id, !.symbol = symbol,
                        !.quantity = quantity,
                        !.auto_execute = auto_execute,
                        !.session_id = sid,
                        !.engine_calls = @ + 1]
        S1 == create_session(sessions, sid, user_id,
                             [symbol |-> symbol, quantiry |-> quantity,
                              auto_execute |-> auto_execute], now)
        S2 == add_workflow_step(S1, sid, "workflow_started",
                                <<symbol, "technical", ToString(quantity),
                                  user_id, session_id, ToString(auto_execute)>>,
                                now, "step_workflow_started" \notin F).S
        S3 == add_workflow_step(S2, sid, "analysis_requested", <<symbol>>,
                                now, "step_analysis_requested" \notin F).S
    IN  IF session_manager /\ "create_session" \in F
        THEN \* set() raises outside the try block
             /\ req' = [req EXCEPT ![p] = Fail(r0, "persistence")]
             /\ UNCHANGED sessions
        ELSE IF endpoints_missing(MARKET_ANALYST_URL, STOCK_TRADER_URL)
        THEN /\ req' = [req EXCEPT ![p] = Fail(r0, "config")]
             /\ sessions' = IF session_manager THEN S2 ELSE sessions
        ELSE /\ req' = [req EXCEPT ![p] =
                          [r0 EXCEPT !.pc = "await_analysis",
                                     !.analysis_calls = @ + 1]]
             /\ sessions' = IF session_manager THEN S3 ELSE sessions

\* POST /trading-workflow: a request arrives and runs to its first await.
Start(p, F) ==
    /\ req[p].pc = "idle"
    \* requests are interchangeable: they are numbered in order of arrival
    /\ \A q \in Procs : q < p => req[q].pc # "idle"
    /\ \E user_id \in Users, symbol \in Symbols, quantity \in Quantities,
          session_id \in SessionIdInputs, auto_execute \in BOOLEAN :
        orchestrate_trading(p, F, [req[p] EXCEPT !.via = "workflow"],
                            user_id, symbol, quantity, session_id, auto_execute)
    /\ UNCHANGED <<now, config, analyses, trades, call>>


\* skipped_status with its two branches exchanged.
skipped_status_swapped(auto_execute) ==
    IF auto_execute THEN "ANALYSIS_ONLY" ELSE "EXECUTION_DECLINED"

\* The workflow status of a run that does not execute: the elif / else
\* branches after `if should_execute and request.auto_execute`.
skipped_status(auto_execute) ==
    IF ~auto_execute THEN "ANALYSIS_ONLY" ELSE "EXECUTION_DECLINED"

\* Finish that returns the status the variable was initialised with,
\* ANALYSIS_ONLY, whatever branch was taken.
Finish_initial_status(r, workflow_status) ==
    [r EXCEPT !.pc = "done", !.workflow_status = "ANALYSIS_ONLY"]

\* The workflow returns its result to the caller.
Finish(r, workflow_status) ==
    [r EXCEPT !.pc = "done", !.workflow_status = workflow_status]

\* trade_approved that looks at auto_execute only, not at the decision.
trade_approved_auto_only(should_execute, auto_execute) ==
    auto_execute

\* `if should_execute and request.auto_execute`
trade_approved(should_execute, auto_execute) ==
    should_execute /\ auto_execute

\* orchestrate_trading, from the answer of the analysis call to the await of
\* the trade call or to the return.
AnalysisResponse(p, F) ==
    /\ req[p].pc = "await_analysis"
    /\ \E resp \in AnalysisResponses, llm \in LLMOutcomes :
        LET r == req[p]
            sid == r.session_id
            analysis_data == [recommendation |-> resp.recommendation,
                              confidence |-> resp.confidence]
            A1 == save_analysis(analyses, sid, r.symbol, analysis_data, now)
            analysis_id == save_analysis_id(sid, r.symbol, now)
            S1 == add_workflow_step(sessions, sid, "analysis_completed",
                                    <<analysis_id, resp.recommendation>>,
                                    now, "step_analysis_completed" \notin F).S
            should_execute == decide_execution_with_llm(analysis_data, r.quantity,
                                                        r.auto_execute, llm)
            r1 == [r EXCEPT !.analysis_data = analysis_data,
                            !.analysis_id = IF session_manager
                                            THEN analysis_id ELSE "",
                            !.should_execute = should_execute,
                            !.reasoning = IF ~r.auto_execute THEN "not_called"
                                          ELSE IF llm.raised THEN "failed"
                                          ELSE "answered"]
            S2 == add_workflow_step(S1, sid, "trade_requested",
                                    <<resp.recommendation>>,
                                    now, "step_trade_requested" \notin F).S
            status == skipped_status(r.auto_execute)
            S3 == update_session(S1, sid,
                                 [status |-> "completed",
                                  workflow_status |-> status],
                                 now, "update_session" \notin F).S
        IN  IF resp.kind # "ok"
            THEN /\ req' = [req EXCEPT ![p] = Fail(r, "upstream")]
                 /\ UNCHANGED <<sessions, analyses>>
            ELSE IF session_manager /\ "save_analysis" \in F
            THEN \* set() raises inside the try block
                 /\ req' = [req EXCEPT ![p] =
                              Fail([r EXCEPT !.analysis_data = analysis_data],
                                   "persistence")]
                 /\ UNCHANGED <<sessions, analyses>>
            ELSE IF trade_approved(should_execute, r.auto_execute)
            THEN /\ req' = [req EXCEPT ![p] =
                              [r1 EXCEPT !.pc = "await_trade",
                                         !.trade_calls = @ + 1]]
                 /\ sessions' = IF session_manager THEN S2 ELSE sessions
                 /\ analyses' = IF session_manager THEN A1 ELSE analyses
            ELSE /\ req' = [req EXCEPT ![p] =
                              Finish(r1, status)]
                 /\ sessions' = IF session_manager THEN S3 ELSE sessions
                 /\ analyses' = IF session_manager THEN A1 ELSE analyses
    /\ UNCHANGED <<now, config, trades, call>>

\* orchestrate_trading, from the answer of the trade call to the return.  The
\* stock trader serves the call with its own clock, read here as `now`.
TradeResponse(p, F) ==
    /\ req[p].pc = "await_trade"
    /\ \E resp \in TradeResponses :
        LET r == req[p]
            sid == r.session_id
            trade_data == execute_trade(r.symbol, r.analysis_data.recommendation,
                                        r.quantity, now)
            T1 == save_trade(trades, sid, trade_data, now)
            trade_id == save_trade_id(trade_data, now)
            S1 == add_workflow_step(sessions, sid, "trade_executed",
                                    <<trade_id, Get(trade_data, "status", "None")>>,
                                    now, "step_trade_executed" \notin F).S
            S2 == update_session(S1, sid,
                                 [status |-> "completed",
                                  workflow_status |-> "COMPLETED"],
                                 now, "update_session" \notin F).S
        IN  IF resp # "ok"
            THEN /\ req' = [req EXCEPT ![p] = Fail(r, "upstream")]
                 /\ UNCHANGED <<sessions, trades>>
            ELSE IF session_manager /\ "save_trade" \in F
            THEN /\ req' = [req EXCEPT ![p] =
                              Fail([r EXCEPT !.trade_data = trade_data],
                                   "persistence")]
                 /\ UNCHANGED <<sessions, trades>>
            ELSE /\ req' = [req EXCEPT ![p] =
                              Finish([r EXCEPT !.trade_data = trade_data,
                                               !.trade_id = IF session_manager
                                                            THEN trade_id ELSE ""],
                                     "COMPLETED")]
                 /\ sessions' = IF session_manager THEN S2 ELSE sessions
                 /\ trades' = IF session_manager THEN T1 ELSE trades
    /\ UNCHANGED <<now, config, analyses, call>>

\* The Session Store answers every call: no Firestore call raises.
Next ==
    \/ Tick
    \/ \E p \in Procs : Start(p, {})
    \/ \E p \in Procs : AnalysisResponse(p, {})
    \/ \E p \in Procs : TradeResponse(p, {})

Spec == Init /\ [][Next]_vars

\* One request, served while any of its Firestore calls may raise.
NextFaulty ==
    \/ Tick
    \/ \E F \in SUBSET StartWrites : Start(1, F)
    \/ \E F \in SUBSET AnalysisWrites : AnalysisResponse(1, F)
    \/ \E F \in SUBSET TradeWrites : TradeResponse(1, F)

SpecFaulty == Init /\ [][NextFaulty]_vars


\* ------------------------------------------------ natural-language router
\* JSON values, as json.loads returns them.
JNull == [j |-> "null"]
JStr(v) == [j |-> "str", v |-> v]
JInt(v) == [j |-> "int", v |-> v]
JBool(v) == [j |-> "bool", v |-> v]
JArr(v) == [j |-> "array", v |-> v]
JObj(v) == [j |-> "object", v |-> v]

\* Python truth value of a JSON value
Truthy(x) ==
    CASE x.j = "null" -> FALSE
      [] x.j = "str" -> x.v # ""
      [] x.j = "int" -> x.v # 0
      [] x.j = "bool" -> x.v
      [] x.j = "array" -> x.v # <<>>
      [] x.j = "object" -> DOMAIN x.v # {}

\* The text of an answer is a sequence of tokens: a ```json fence, a plain ```
\* fence, blanks, other text, or the text of one JSON value.
FenceJson == [tok |-> "fence_json"]
Fence == [tok |-> "fence"]
Blank == [tok |-> " "]
Prose == [tok |-> "prose"]
JsonText(x) == [tok |-> "json", value |-> x]

\* The objects the Reasoning Provider may answer with: the keys of the prompt's
\* template, each present or left out, with values of the type asked for or of
\* another type.
IntentFields(key) ==
    CASE key = "symbol" -> {JStr("AAPL"), JStr(""), JNull, JArr(<<JStr("AAPL")>>)}
      [] key = "action" -> {JStr("analyze"), JStr("buy"), JStr("sell"),
                            JStr("unknown")}
      [] key = "quantity" -> {JInt(100), JStr("ten")}
      [] key = "auto_execute" -> {JBool(TRUE), JBool(FALSE)}
IntentKeySets ==
    { {"symbol", "action", "quantity", "auto_execute"},
      {"symbol", "action"}, {"action"}, {"symbol"} }
IntentObjects ==
    UNION { { JObj(f) : f \in { g \in [K -> UNION { IntentFields(k) : k \in K }] :
                                    \A k \in K : g[k] \in IntentFields(k) } } :
            K \in IntentKeySets }
\* JSON values that are not objects.
OtherJson == { JArr(<<>>), JStr("analyze AAPL"), JNull }

IntentTexts ==
    UNION { { <<JsonText(x)>>,
              <<FenceJson, Blank, JsonText(x), Blank, Fence>>,
              <<Prose, Fence, JsonText(x), Fence, Prose>>,
              <<Prose, JsonText(x)>> } : x \in IntentObjects \cup OtherJson }
    \cup { <<>>, <<Prose>>, <<FenceJson, Fence>> }

\* One call of generate_content in parse_trading_intent_with_llm.
IntentAnswers == { [raised |-> TRUE, text |-> <<>>] }
                 \cup { [raised |-> FALSE, text |-> t] : t \in IntentTexts }

\* str.strip() on a token sequence
RECURSIVE StripBlanks(_)
StripBlanks(s) ==
    IF s = <<>> THEN s
    ELSE IF Head(s) = Blank THEN StripBlanks(Tail(s))
    ELSE IF s[Len(s)] = Blank THEN StripBlanks(SubSeq(s, 1, Len(s) - 1))
    ELSE s

\* `sep in text`
Contains(s, sep) == \E i \in 1..Len(s) : s[i] = sep

\* text.split(sep)[0]: the text before the first sep
SplitPart0(s, sep) ==
    IF Contains(s, sep)
    THEN SubSeq(s, 1, (CHOOSE i \in 1..Len(s) :
                          s[i] = sep /\ \A k \in 1..(i - 1) : s[k] # sep) - 1)
    ELSE s

\* text.split(sep)[1], for a text that contains sep: the text between the
\* first sep and the next one
SplitPart1(s, sep) ==
    LET i == CHOOSE i \in 1..Len(s) : s[i] = sep /\ \A k \in 1..(i - 1) : s[k] # sep
    IN  SplitPart0(SubSeq(s, i + 1, Len(s)), sep)

\* json.loads: the value, when the text is the text of one JSON value
json_loads(s) ==
    IF Len(s) = 1 /\ s[1].tok = "json"
    THEN [raised |-> FALSE, value |-> s[1].value]
    ELSE [raised |-> TRUE]

\* The lines of parse_trading_intent_with_llm that take the JSON text out of
\* the answer.
extract_json(response_text) ==
    IF Contains(response_text, FenceJson)
    THEN StripBlanks(SplitPart0(SplitPart1(response_text, FenceJson), Fence))
    ELSE IF Contains(response_text, Fence)
    THEN StripBlanks(SplitPart0(SplitPart1(response_text, Fence), Fence))
    ELSE response_text

\* default_intent with auto_execute set.
default_intent_executing ==
    JObj([symbol |-> JNull, action |-> JStr("unknown"), quantity |-> JInt(100),
          analysis_type |-> JStr("technical"), auto_execute |-> JBool(TRUE)])

\* The dict that parse_trading_intent_with_llm returns from its except branch.
default_intent ==
    JObj([symbol |-> JNull, action |-> JStr("unknown"), quantity |-> JInt(100),
          analysis_type |-> JStr("technical"), auto_execute |-> JBool(FALSE)])

\* The try block of parse_trading_intent_with_llm raises: the call raises or
\* json.loads rejects the extracted text.
intent_parsing_failed(answer) ==
    answer.raised \/ json_loads(extract_json(StripBlanks(answer.text))).raised

\* parse_trading_intent_with_llm(query), with the outcome `answer` of its
\* generate_content call.
parse_trading_intent_with_llm(answer) ==
    IF intent_parsing_failed(answer)
    THEN default_intent
    ELSE json_loads(extract_json(StripBlanks(answer.text))).value

\* The router's condition with the test of the action left out.
is_analysis_request_any_action(parsed_intent) ==
    Truthy(Get(parsed_intent.v, "symbol", JNull))

\* `parsed_intent.get("action") == "analyze" and parsed_intent.get("symbol")`
is_analysis_request(parsed_intent) ==
    /\ Get(parsed_intent.v, "action", JNull) = JStr("analyze")
    /\ Truthy(Get(parsed_intent.v, "symbol", JNull))

\* TradingRequest(...) accepts the fields the router passes: pydantic raises
\* ValidationError for a symbol that is not a string, a quantity that is not
\* an integer or an auto_execute that is not a boolean.
trading_request_valid(parsed_intent) ==
    /\ parsed_intent.v["symbol"].j = "str"
    /\ Get(parsed_intent.v, "quantity", JInt(100)).j = "int"
    /\ Get(parsed_intent.v, "auto_execute", JBool(FALSE)).j = "bool"

\* session_id of a natural-language request
NLSessionId(session_id, user_id, t) ==
    IF session_id # "" THEN session_id
    ELSE "nl-" \o user_id \o "-" \o UnixTs(t)

\* natural_language_trading, from its entry to its return or to the first
\* await of the workflow it starts.  The workflow's later segments are
\* AnalysisResponse and TradeResponse; the summary and the conversational
\* response are texts made by functions that catch every exception, and are
\* left out.  Any exception inside the handler's try block, the workflow's
\* HTTPException included, is answered with HTTP 500.
NLStart(p) ==
    /\ req[p].pc = "idle"
    /\ \A q \in Procs : q < p => req[q].pc # "idle"
    /\ \E user_id \in Users, session_id \in SessionIdInputs,
          answer \in IntentAnswers :
        LET sid == NLSessionId(session_id, user_id, now)
            parsed_intent == parse_trading_intent_with_llm(answer)
            r == [req[p] EXCEPT !.via = "nl", !.user_id = user_id,
                                !.session_id = sid,
                                !.intent_answer = answer,
                                !.parsed_intent = parsed_intent]
        IN  IF parsed_intent.j # "object"
            THEN \* parsed_intent.get raises AttributeError
                 /\ req' = [req EXCEPT ![p] = Fail(r, "intent")]
                 /\ UNCHANGED sessions
            ELSE IF is_analysis_request(parsed_intent)
            THEN IF ~trading_request_valid(parsed_intent)
                 THEN /\ req' = [req EXCEPT ![p] = Fail(r, "intent")]
                      /\ UNCHANGED sessions
                 ELSE orchestrate_trading(
                          p, {}, r, user_id, parsed_intent.v["symbol"].v,
                          Get(parsed_intent.v, "quantity", JInt(100)).v, sid,
                          Get(parsed_intent.v, "auto_execute", JBool(FALSE)).v)
            ELSE /\ req' = [req EXCEPT ![p] =
                              [r EXCEPT !.pc = "done",
                                        !.response = "clarification"]]
                 /\ UNCHANGED sessions
    /\ UNCHANGED <<now, config, analyses, trades, call>>

\* One natural-language request, with a reliable Session Store.
NextNL ==
    \/ Tick
    \/ NLStart(1)
    \/ AnalysisResponse(1, {})
    \/ TradeResponse(1, {})

SpecNL == Init /\ [][NextNL]_vars


\* ------------------------------------------------------------- queries
\* where(...).order_by("created_at", DESCENDING).stream(): the documents with
\* the given ids, latest first.  Firestore fixes the order of documents with
\* equal created_at by document name; here CHOOSE fixes it.
OrderByCreatedAtDesc(coll, ids) ==
    CHOOSE seq \in [1..Cardinality(ids) -> ids] :
        /\ \A i, k \in 1..Cardinality(ids) : i # k => seq[i] # seq[k]
        /\ \A i, k \in 1..Cardinality(ids) :
              i < k => coll[seq[i]].created_at >= coll[seq[k]].created_at

\* The first n elements of a sequence: seq[:n]
Limit(seq, n) == SubSeq(seq, 1, IF Len(seq) < n THEN Len(seq) ELSE n)

\* SessionManager.get_user_sessions
get_user_sessions(S, user_id, limit) ==
    LET ids == OrderByCreatedAtDesc(S, { id \in DOMAIN S : S[id].user_id = user_id })
    IN  Limit([i \in 1..Len(ids) |-> S[ids[i]]], limit)

\* SessionManager.get_session_analysis_history
get_session_analysis_history(A, session_id) ==
    LET ids == OrderByCreatedAtDesc(A, { id \in DOMAIN A : A[id].session_id = session_id })
    IN  [i \in 1..Len(ids) |-> A[ids[i]]]

\* SessionManager.get_session_trades
get_session_trades(T, session_id) ==
    LET ids == OrderByCreatedAtDesc(T, { id \in DOMAIN T : T[id].session_id = session_id })
    IN  [i \in 1..Len(ids) |-> T[ids[i]]]

\* A Python list held as an element of another list.
PyList(items) == [list |-> items]

\* datetime.min, a time before every clock value
DatetimeMin == -1

\* get_sort_key(trade) of get_user_trade_history
get_sort_key(trade) ==
    IF "list" \in DOMAIN trade THEN DatetimeMin
    ELSE Get(trade, "created_at", DatetimeMin)

\* list.sort(key=get_sort_key, reverse=True): stable, greatest key first
RECURSIVE SortByKeyDesc(_)
SortByKeyDesc(seq) ==
    IF seq = <<>> THEN seq
    ELSE LET rest == SortByKeyDesc(Tail(seq))
             \* the head goes before the first element with a smaller key
             n == Cardinality({ i \in 1..Len(rest) :
                                   \A k \in 1..i :
                                       get_sort_key(rest[k]) > get_sort_key(Head(seq)) })
         IN  SubSeq(rest, 1, n) \o <<Head(seq)>> \o SubSeq(rest, n + 1, Len(rest))

\* The default limit of get_user_sessions inside get_user_trade_history.
SessionFanOut == 100

\* SessionManager.get_user_trade_history: all_trades.append(trades) adds the
\* list of one session's trades as one element.
get_user_trade_history(S, T, user_id, limit) ==
    LET user_sessions == get_user_sessions(S, user_id, SessionFanOut)
        all_trades == [i \in 1..Len(user_sessions) |->
                          PyList(get_session_trades(T, user_sessions[i].session_id))]
    IN  IF user_sessions = <<>> THEN <<>>
        ELSE Limit(SortByKeyDesc(all_trades), limit)

\* ------------------------------------------- the decision policy on its own
\* One call of decide_execution_with_llm, for every confidence from 0.00 to
\* 1.00, every recommendation, both values of auto_execute and every outcome
\* of the reasoning call.
DecideCalls ==
    { [fn |-> "decide_execution_with_llm",
       analysis_data |-> [recommendation |-> r, confidence |-> c],
       quantity |-> q, auto_execute |-> a, llm |-> l,
       returned |-> FALSE, result |-> FALSE] :
          r \in Recommendations, c \in 0..MaxConfidence, q \in Quantities,
          a \in BOOLEAN, l \in LLMOutcomes }

InitDecide ==
    /\ now = 0
    /\ session_manager = FALSE
    /\ MARKET_ANALYST_URL = TRUE
    /\ STOCK_TRADER_URL = TRUE
    /\ sessions = <<>>
    /\ analyses = <<>>
    /\ trades = <<>>
    /\ req = [p \in Procs |-> IdleReq]
    /\ call \in DecideCalls

Decide ==
    /\ call.fn = "decide_execution_with_llm"
    /\ ~call.returned
    /\ call' = [call EXCEPT !.returned = TRUE,
                            !.result = decide_execution_with_llm(
                                           call.analysis_data, call.quantity,
                                           call.auto_execute, call.llm)]
    /\ UNCHANGED <<now, config, sessions, analyses, trades, req>>

NextDecide == Decide

SpecDecide == InitDecide /\ [][NextDecide]_vars

\* ------------------------------------------------ the trader on its own
\* One POST /execute-trade of the stock-trader service, for every symbol,
\* action and quantity below, at every clock value.
MaxQuantity == 5        \* quantities 1..MaxQuantity
TradeSymbols == {"AAPL", "GOOGL", "TSLA"}
TradeActions == {"BUY", "SELL", "HOLD", "STRONG_BUY", "buy"}

TradeCalls ==
    { [fn |-> "execute_trade", symbol |-> s, action |-> a, quantity |-> q,
       returned |-> FALSE, status_code |-> 0, result |-> None_] :
          s \in TradeSymbols, a \in TradeActions, q \in 1..MaxQuantity }

InitTrade ==
    /\ now \in 0..MaxTime
    /\ session_manager = FALSE
    /\ MARKET_ANALYST_URL = TRUE
    /\ STOCK_TRADER_URL = TRUE
    /\ sessions = <<>>
    /\ analyses = <<>>
    /\ trades = <<>>
    /\ req = [p \in Procs |-> IdleReq]
    /\ call \in TradeCalls

\* The handler returns a dict on each of its paths and raises on none: the
\* answer is HTTP 200 with that dict.
ExecuteTrade ==
    /\ call.fn = "execute_trade"
    /\ ~call.returned
    /\ call' = [call EXCEPT !.returned = TRUE,
                            !.status_code = 200,
                            !.result = execute_trade(call.symbol, call.action,
                                                     call.quantity, now)]
    /\ UNCHANGED <<now, config, sessions, analyses, trades, req>>

NextTrade == ExecuteTrade

SpecTrade == InitTrade /\ [][NextTrade]_vars

\* ------------------------------------------------ services health check
\* GET /services/health: the handler probes the market analyst and then the
\* stock trader, each probe an await; `call` holds its position and locals.
\* What one probe produces: a response with a status code, or an exception
\* (timeout or transport failure).
ProbeStatusCodes == {200, 404, 500, 503}
ProbeOutcomes ==
    { [kind |-> "response", status_code |-> c] : c \in ProbeStatusCodes }
    \cup { [kind |-> k, status_code |-> 0] : k \in {"timeout", "transport"} }

NoProbe == [kind |-> "none", status_code |-> 0]

InitHealth ==
    /\ now \in 0..MaxTime
    /\ session_manager = FALSE
    /\ MARKET_ANALYST_URL \in BOOLEAN
    /\ STOCK_TRADER_URL \in BOOLEAN
    /\ sessions = <<>>
    /\ analyses = <<>>
    /\ trades = <<>>
    /\ req = [p \in Procs |-> IdleReq]
    /\ call = [fn |-> "check_services_health", pc |-> "start",
               health_status |-> <<>>,
               analyst_probe |-> NoProbe, trader_probe |-> NoProbe]

\* "healthy" if response.status_code == 200 else "unhealthy"
probe_status(outcome) ==
    IF outcome.status_code = 200 THEN "healthy" ELSE "unhealthy"

\* Where the handler goes after the analyst's part.
AfterAnalyst == IF STOCK_TRADER_URL THEN "await_trader" ELSE "done"

\* From the entry to the first await.
HealthStart ==
    /\ call.fn = "check_services_health"
    /\ call.pc = "start"
    /\ call' = [call EXCEPT
                  !.health_status = [orchestrator |-> "healthy",
                                     market_analyst |-> "unknown",
                                     stock_trader |-> "unknown",
                                     timestamp |-> now],
                  !.pc = IF MARKET_ANALYST_URL THEN "await_analyst"
                         ELSE AfterAnalyst]
    /\ UNCHANGED <<now, config, sessions, analyses, trades, req>>

\* The probe of the market analyst is answered or raises.
HealthAnalystAnswer ==
    /\ call.fn = "check_services_health"
    /\ call.pc = "await_analyst"
    /\ \E outcome \in ProbeOutcomes :
        call' = [call EXCEPT
                   !.analyst_probe = outcome,
                   !.health_status =
                       IF outcome.kind = "response"
                       THEN [@ EXCEPT !.market_analyst = probe_status(outcome)]
                       ELSE ("markey_analyst" :> "unreachable") @@ @,
                   !.pc = AfterAnalyst]
    /\ UNCHANGED <<now, config, sessions, analyses, trades, req>>

\* The probe of the stock trader is answered or raises.
HealthTraderAnswer ==
    /\ call.fn = "check_services_health"
    /\ call.pc = "await_trader"
    /\ \E outcome \in ProbeOutcomes :
        call' = [call EXCEPT
                   !.trader_probe = outcome,
                   !.health_status =
                       IF outcome.kind = "response"
                       THEN [@ EXCEPT !.stock_trader = probe_status(outcome)]
                       ELSE [@ EXCEPT !.stock_trader = "unreachable"],
                   !.pc = "done"]
    /\ UNCHANGED <<now, config, sessions, analyses, trades, req>>

NextHealth ==
    \/ Tick
    \/ HealthStart
    \/ HealthAnalystAnswer
    \/ HealthTraderAnswer

SpecHealth == InitHealth /\ [][NextHealth]_vars

\* ------------------------------------------------------- market analyst
\* POST /analyze of the market-analyst service.
AnalystSymbols == {"AAPL", "GOOGL", "TSLA", "MSFT"}
AnalysisTypes == {"technical", "fundamental", "sentiment"}

\* market_data["price_change"] of analyze_market, a string of characters.
price_change_of(symbol) ==
    CASE symbol = "AAPL" -> <<"+", "2", ".", "5", "%">>
      [] symbol = "GOOGL" -> <<"+", "0", ".", "3", "%">>
      [] symbol = "TSLA" -> <<"-", "3", ".", "2", "%">>
      [] OTHER -> <<"0", ".", "0", "%">>

Digits == {"0", "1", "2", "3", "4", "5", "6", "7", "8", "9"}

\* float(s) of a string: it raises ValueError unless s is an optional sign
\* followed by digits with at most one decimal point.
py_float(s) ==
    LET body == IF s # <<>> /\ Head(s) \in {"+", "-"} THEN Tail(s) ELSE s
    IN  IF \/ \A i \in 1..Len(body) : body[i] \notin Digits
           \/ \E i \in 1..Len(body) : body[i] \notin Digits \cup {"."}
           \/ Cardinality({ i \in 1..Len(body) : body[i] = "." }) > 1
        THEN [raised |-> TRUE, error |-> "ValueError"]
        ELSE [raised |-> FALSE, error |-> ""]

\* fallback_analysis, first statement:
\*     float(market_data.get("price_change", "0%")).replace("%", "")
\* float() is applied to the string with its percent sign; were it to return,
\* .replace would be looked up on a float, which has no such attribute.  The
\* statement raises on every input, so the rest of the function never runs.
fallback_analysis(symbol, price_change) ==
    IF py_float(price_change).raised
    THEN [raised |-> TRUE, error |-> "ValueError"]
    ELSE [raised |-> TRUE, error |-> "AttributeError"]

\* What analyze_with_llm produces: the parsed JSON of the answer, or an
\* exception (the call raises, or json.loads rejects the text).
AnalystLLMOutcomes ==
    { [raised |-> FALSE, recommendation |-> r, confidence |-> c] :
          r \in Recommendations, c \in Confidences }
    \cup { [raised |-> TRUE, recommendation |-> k, confidence |-> 0] :
          k \in {"call_failed", "not_json"} }

\* analyze_market: the status code and the recommendation and confidence of
\* the answer.  An exception that leaves the handler is answered with 500.
analyze_market(symbol, analysis_type, llm) ==
    IF ~llm.raised
    THEN [status_code |-> 200, recommendation |-> llm.recommendation,
          confidence |-> llm.confidence]
    ELSE LET fb == fallback_analysis(symbol, price_change_of(symbol))
         IN  IF fb.raised
             THEN [status_code |-> 500, recommendation |-> "None", confidence |-> 0]
             ELSE [status_code |-> 200, recommendation |-> fb.recommendation,
                   confidence |-> fb.confidence]

AnalystCalls ==
    { [fn |-> "analyze_market", symbol |-> s, analysis_type |-> a, llm |-> l,
       returned |-> FALSE, result |-> None_] :
          s \in AnalystSymbols, a \in AnalysisTypes, l \in AnalystLLMOutcomes }

InitAnalyst ==
    /\ now = 0
    /\ session_manager = FALSE
    /\ MARKET_ANALYST_URL = TRUE
    /\ STOCK_TRADER_URL = TRUE
    /\ sessions = <<>>
    /\ analyses = <<>>
    /\ trades = <<>>
    /\ req = [p \in Procs |-> IdleReq]
    /\ call \in AnalystCalls

Analyze ==
    /\ call.fn = "analyze_market"
    /\ ~call.returned
    /\ call' = [call EXCEPT !.returned = TRUE,
                            !.result = analyze_market(call.symbol,
                                                      call.analysis_type, call.llm)]
    /\ UNCHANGED <<now, config, sessions, analyses, trades, req>>

NextAnalyst == Analyze

SpecAnalyst == InitAnalyst /\ [][NextAnalyst]_vars

\* ------------------------------------------- the session manager on its own
\* Callers of SessionManager use its methods directly, in any order and on
\* any session id; every method is one Firestore request, served atomically.
MaxCalls == 3           \* method calls in one behaviour

StoreSessionIds == {"s1", "s2"}
StoreUsers == {"u1", "u2"}
\* The step_data of add_workflow_step calls.
StepDatas == {"analysis_requested", "trade_requested"}
\* The update_data of update_session calls.
UpdateDatas == { [status |-> "completed", workflow_status |-> "COMPLETED"],
                 [metadata |-> <<"note">>],
                 [updated_at |-> 0] }

\* The record of the latest method call: its arguments, its result and its
\* number in the behaviour.
MethodCall(fn, session_id, arg, result) ==
    [fn |-> fn, session_id |-> session_id, arg |-> arg, result |-> result,
     n |-> call.n + 1]

InitStore ==
    /\ now = 0
    /\ session_manager = TRUE
    /\ MARKET_ANALYST_URL = TRUE
    /\ STOCK_TRADER_URL = TRUE
    /\ sessions = <<>>
    /\ analyses = <<>>
    /\ trades = <<>>
    /\ req = [p \in Procs |-> IdleReq]
    /\ call = [fn |-> "none", n |-> 0]

CallCreateSession ==
    /\ call.n < MaxCalls
    /\ \E session_id \in StoreSessionIds, user_id \in StoreUsers :
        /\ sessions' = create_session(sessions, session_id, user_id, <<>>, now)
        /\ call' = MethodCall("create_session", session_id, user_id, TRUE)
    /\ UNCHANGED <<now, config, analyses, trades, req>>

\* ok: FALSE when the Firestore request raises for a reason of its own.
CallUpdateSession ==
    /\ call.n < MaxCalls
    /\ \E session_id \in StoreSessionIds, update_data \in UpdateDatas,
          ok \in BOOLEAN :
        LET r == update_session(sessions, session_id, update_data, now, ok)
        IN  /\ sessions' = r.S
            /\ call' = MethodCall("update_session", session_id, update_data,
                                  r.result)
    /\ UNCHANGED <<now, config, analyses, trades, req>>

CallAddWorkflowStep ==
    /\ call.n < MaxCalls
    /\ \E session_id \in StoreSessionIds, step_data \in StepDatas,
          ok \in BOOLEAN :
        LET r == add_workflow_step(sessions, session_id, step_data, <<>>,
                                   now, ok)
        IN  /\ sessions' = r.S
            /\ call' = MethodCall("add_workflow_step", session_id, step_data,
                                  r.result)
    /\ UNCHANGED <<now, config, analyses, trades, req>>

\* SessionManager.close_session
CallCloseSession ==
    /\ call.n < MaxCalls
    /\ \E session_id \in StoreSessionIds, ok \in BOOLEAN :
        LET r == update_session(sessions, session_id, [status |-> "closed"],
                                now, ok)
        IN  /\ sessions' = r.S
            /\ call' = MethodCall("close_session", session_id, "", r.result)
    /\ UNCHANGED <<now, config, analyses, trades, req>>

NextStore ==
    \/ Tick
    \/ CallCreateSession
    \/ CallUpdateSession
    \/ CallAddWorkflowStep
    \/ CallCloseSession

SpecStore == InitStore /\ [][NextStore]_vars


\* ------------------------------------------------------------ properties
\* The step log of a stored session holds a step with this tag.
HasStep(sid, tag) ==
    \E i \in 1..Len(sessions[sid].workflow_steps) :
        sessions[sid].workflow_steps[i].step = tag

\* The ids of the records of a collection that belong to a session.
RecordsOf(coll, sid) == { id \in DOMAIN coll : coll[id].session_id = sid }

\* s is a prefix of t
IsPrefix(s, t) == Len(s) <= Len(t) /\ SubSeq(t, 1, Len(s)) = s

\* C1: when the reasoning call fails, decide_execution_with_llm returns true
\* iff auto_execute is true, confidence > 0.7 and recommendation is not HOLD;
\* and it returns false whenever auto_execute is false, whatever the
\* confidence, the recommendation and the reasoning call's outcome.
C1_FallbackDecision ==
    (call.fn = "decide_execution_with_llm" /\ call.returned) =>
        /\ call.llm.raised =>
              (call.result <=> /\ call.auto_execute
                               /\ call.analysis_data.confidence > 70
                               /\ call.analysis_data.recommendation # "HOLD")
        /\ ~call.auto_execute => ~call.result

\* C1 witness: the reasoning call failed on BUY at confidence exactly 0.7 with
\* auto_execute true, and the policy returned false.
C1_Witness ==
    /\ call.fn = "decide_execution_with_llm"
    /\ call.returned
    /\ call.llm.raised
    /\ call.auto_execute
    /\ call.analysis_data.confidence = 70
    /\ call.analysis_data.recommendation = "BUY"
    /\ ~call.result

\* C2: a run with auto_execute false never calls the Execution Provider and
\* writes no TradeRecord; its trade is null and, when it returns a result,
\* the workflow status is ANALYSIS_ONLY.
C2_AnalysisOnly ==
    \A p \in Procs :
        LET r == req[p] IN
        (r.pc # "idle" /\ ~r.auto_execute) =>
            /\ r.pc # "await_trade"
            /\ r.trade_calls = 0
            /\ r.trade_id = ""
            /\ r.trade_data = None_
            /\ r.pc = "done" => r.workflow_status = "ANALYSIS_ONLY"

\* C2 witness: a persisted run with auto_execute false returned after a BUY
\* analysis at high confidence.
C2_Witness ==
    \E p \in Procs :
        /\ session_manager
        /\ req[p].pc = "done"
        /\ ~req[p].auto_execute
        /\ req[p].analysis_data # None_
        /\ req[p].analysis_data.recommendation = "BUY"
        /\ req[p].analysis_data.confidence = 85

\* C3: a run with auto_execute true whose analysis recommends HOLD never
\* executes: the decision is false, the Execution Provider is not called, no
\* TradeRecord is written and the returned status is EXECUTION_DECLINED.
C3_HoldIsNeverExecuted ==
    \A p \in Procs :
        LET r == req[p] IN
        (/\ r.auto_execute
         /\ r.analysis_data # None_
         /\ r.analysis_data.recommendation = "HOLD") =>
            /\ ~r.should_execute
            /\ r.trade_calls = 0
            /\ r.trade_id = ""
            /\ r.pc = "done" => r.workflow_status = "EXECUTION_DECLINED"

\* The case of C4: a persisted run with auto_execute true, a BUY or SELL
\* analysis above 0.7 and a failed reasoning call.
C4_Case(r) ==
    /\ session_manager
    /\ r.auto_execute
    /\ r.analysis_data # None_
    /\ r.analysis_data.recommendation \in {"BUY", "SELL"}
    /\ r.analysis_data.confidence > 70
    /\ r.reasoning = "failed"

\* In the case of C4 the run goes on to the Execution Provider; it ends in an
\* error only when that call fails, and otherwise with status COMPLETED and a
\* trade whose action is the recommendation.
C4_Status ==
    \A p \in Procs :
        LET r == req[p] IN
        C4_Case(r) =>
            /\ r.pc \in {"await_trade", "done", "error"}
            /\ r.trade_calls = 1
            /\ r.pc = "error" => r.error = "upstream"
            /\ r.pc = "done" =>
                  /\ r.workflow_status = "COMPLETED"
                  /\ r.trade_data # None_
                  /\ r.trade_data.action = r.analysis_data.recommendation

\* The session of a run that has just returned has exactly one AnalysisRecord
\* and exactly one TradeRecord, whose action is the recommendation.  `alone`
\* restricts the statement to a session id that no other run uses.
C4_Records(alone) ==
    \A p \in Procs :
        LET r == req'[p]
            sid == r.session_id
        IN  (/\ C4_Case(r)
             /\ req[p].pc # "done"
             /\ r.pc = "done"
             /\ alone => \A q \in Procs \ {p} : req'[q].session_id # sid) =>
                /\ Cardinality(RecordsOf(analyses', sid)) = 1
                /\ Cardinality(RecordsOf(trades', sid)) = 1
                /\ \A id \in RecordsOf(trades', sid) :
                      /\ "action" \in DOMAIN trades'[id].trade_data
                      /\ trades'[id].trade_data.action =
                             r.analysis_data.recommendation

\* C4: with auto_execute true, a BUY or SELL recommendation, confidence above
\* 0.7, the Reasoning Provider unavailable and both providers answering, the
\* run returns COMPLETED and its session ends with exactly one AnalysisRecord
\* and exactly one TradeRecord, whose action is the recommendation.
C4_FallbackExecutes == [](C4_Status) /\ [][C4_Records(FALSE)]_vars

\* The statement of C4 for the sessions that a single run uses.
C4_SingleRunSession == [](C4_Status) /\ [][C4_Records(TRUE)]_vars

\* A run in the case of C4 returned COMPLETED for BUY at 0.85, with one
\* AnalysisRecord and one TradeRecord in its session.
C4_Witness ==
    \E p \in Procs :
        /\ C4_Case(req[p])
        /\ req[p].pc = "done"
        /\ req[p].analysis_data.recommendation = "BUY"
        /\ req[p].analysis_data.confidence = 85
        /\ req[p].workflow_status = "COMPLETED"
        /\ Cardinality(RecordsOf(trades, req[p].session_id)) = 1
        /\ Cardinality(RecordsOf(analyses, req[p].session_id)) = 1

\* C5: when the analysis call fails, a FAILED step is appended to the
\* session's log, the stored session becomes failed, the caller gets an error
\* and the session has no TradeRecord.
C5_AnalysisFailureMarksSessionFailed ==
    \A p \in Procs :
        LET r == req[p]
            sid == r.session_id
        IN  (/\ session_manager
             /\ r.pc = "error"
             /\ r.error = "upstream"
             /\ r.trade_calls = 0
             /\ sid \in DOMAIN sessions) =>
                /\ sessions[sid].status = "failed"
                /\ HasStep(sid, "FAILED")
                /\ RecordsOf(trades, sid) = {}

\* C6: when the execution call fails, a FAILED step is appended, the stored
\* session becomes failed, the caller gets an error, and the run writes no
\* TradeRecord and no trade_executed step.
C6_ExecutionFailureMarksSessionFailed ==
    \A p \in Procs :
        LET r == req[p]
            sid == r.session_id
        IN  (/\ session_manager
             /\ r.pc = "error"
             /\ r.error = "upstream"
             /\ r.trade_calls = 1
             /\ sid \in DOMAIN sessions) =>
                /\ sessions[sid].status = "failed"
                /\ HasStep(sid, "FAILED")
                /\ r.trade_id = ""

\* C7: no failure of a Session Store write aborts the workflow.
C7_StoreFailureDoesNotAbort ==
    \A p \in Procs : req[p].error # "persistence"

\* C8: no save_analysis or save_trade call changes or replaces a record that
\* an earlier call wrote, and each such call adds exactly one record.
C8_RecordsAreWriteOnce ==
    [][ /\ \A id \in DOMAIN analyses :
              id \in DOMAIN analyses' /\ analyses'[id] = analyses[id]
        /\ \A id \in DOMAIN trades :
              id \in DOMAIN trades' /\ trades'[id] = trades[id]
        /\ \A p \in Procs :
              /\ (req[p].analysis_id = "" /\ req'[p].analysis_id # "") =>
                     Cardinality(DOMAIN analyses') = Cardinality(DOMAIN analyses) + 1
              /\ (req[p].trade_id = "" /\ req'[p].trade_id # "") =>
                     Cardinality(DOMAIN trades') = Cardinality(DOMAIN trades) + 1
      ]_vars

\* C9: the step log of every session only grows: each step stays in the log,
\* unchanged and at its position.
C9_StepsOnlyGrow ==
    [][ \A sid \in DOMAIN sessions :
            /\ sid \in DOMAIN sessions'
            /\ IsPrefix(sessions[sid].workflow_steps,
                        sessions'[sid].workflow_steps) ]_vars

\* C10: creating a session under an id that already exists fails with a
\* conflict error and leaves the stored session unchanged.
C10_CreateOnExistingIdConflicts ==
    [][ \A p \in Procs :
            (/\ session_manager
             /\ req[p].pc = "idle"
             /\ req'[p].pc # "idle"
             /\ req'[p].session_id \in DOMAIN sessions) =>
                /\ req'[p].pc = "error"
                /\ req'[p].error = "conflict"
                /\ sessions'[req'[p].session_id] = sessions[req'[p].session_id]
      ]_vars

\* C11: every add_workflow_step call that reports success makes the session's
\* step log one entry longer, whatever calls ran before it, also when an
\* earlier call appended an equal payload at the same timestamp.
C11_NoAppendIsLost ==
    [][ (call'.fn = "add_workflow_step" /\ call'.result) =>
            Len(sessions'[call'.session_id].workflow_steps) =
                Len(sessions[call'.session_id].workflow_steps) + 1 ]_vars

\* C20: update_session, close_session and add_workflow_step on a session id
\* that is not stored report failure and leave the stored sessions as they
\* were: no session is created.
C20_MissingSessionIsNotCreated ==
    [][ (/\ call'.n # call.n
         /\ call'.fn \in {"update_session", "close_session", "add_workflow_step"}
         /\ call'.session_id \notin DOMAIN sessions) =>
            /\ ~call'.result
            /\ sessions' = sessions ]_vars

\* C20 witness: while another session is stored, update_session was called on
\* an id that is not stored; it returned False and the id is still not stored.
C20_Witness ==
    /\ call.fn = "update_session"
    /\ ~call.result
    /\ call.session_id \notin DOMAIN sessions
    /\ sessions # <<>>

\* The steps of a workflow run, in the order the engine performs them.
WorkflowOrder ==
    <<"workflow_started", "analysis_requested", "analysis_completed",
      "trade_requested", "trade_executed">>

\* The tags of the step log of a stored session.
StepTagsOf(sid) ==
    [i \in 1..Len(sessions[sid].workflow_steps) |->
        sessions[sid].workflow_steps[i].step]

\* The ordering part of C12, for a session that a single run uses.
C12_Ordered(p) ==
    IsPrefix(StepTagsOf(req[p].session_id), WorkflowOrder)

\* The durability part of C12.
C12_Durable(p) ==
    LET sid == req[p].session_id IN
    /\ HasStep(sid, "analysis_completed") => RecordsOf(analyses, sid) # {}
    /\ HasStep(sid, "trade_executed") => RecordsOf(trades, sid) # {}

\* A run whose stored session no other run uses.
SingleRunSession(p) ==
    /\ session_manager
    /\ req[p].pc # "idle"
    /\ req[p].session_id \in DOMAIN sessions
    /\ \A q \in Procs \ {p} : req[q].session_id # req[p].session_id

\* C12: the step log of a session that a single run uses is a prefix of
\* workflow_started, analysis_requested, analysis_completed, trade_requested,
\* trade_executed; when analysis_completed is in the log the session has an
\* AnalysisRecord and when trade_executed is in the log it has a TradeRecord.
C12_StepLogIsOrderedAndDurable ==
    \A p \in Procs : SingleRunSession(p) => C12_Ordered(p) /\ C12_Durable(p)

\* The ordering part of C12 on its own.
C12_OrderedOnly ==
    \A p \in Procs : SingleRunSession(p) => C12_Ordered(p)

\* C13: once a request that created a session has been answered, with a
\* result or with an error, the stored session's status is completed or
\* failed: it does not remain active.
C13_AnsweredSessionIsTerminated ==
    \A p \in Procs :
        (/\ session_manager
         /\ req[p].pc \in {"done", "error"}
         /\ req[p].session_id \in DOMAIN sessions) =>
            sessions[req[p].session_id].status \in {"completed", "failed"}

\* C14: whenever the Analysis Provider endpoint or the Execution Provider
\* endpoint is not configured, every workflow request, with auto_execute true
\* or false, fails with the configuration error and calls neither provider.
C14_MissingEndpointIsRefused ==
    \A p \in Procs :
        (req[p].pc # "idle" /\ (~MARKET_ANALYST_URL \/ ~STOCK_TRADER_URL)) =>
            /\ req[p].pc = "error"
            /\ req[p].error = "config"
            /\ req[p].analysis_calls = 0
            /\ req[p].trade_calls = 0

\* C14 witness: an analysis-only request (auto_execute false) was refused
\* while the Analysis Provider endpoint is configured and only the Execution
\* Provider endpoint is missing.
C14_Witness ==
    \E p \in Procs :
        /\ MARKET_ANALYST_URL
        /\ ~STOCK_TRADER_URL
        /\ ~req[p].auto_execute
        /\ req[p].pc = "error"
        /\ req[p].error = "config"
        /\ req[p].analysis_calls = 0

\* C15: a natural-language request enters the workflow engine only when its
\* parsed intent has action analyze and a non-empty symbol; for an intent with
\* another action or with a missing or empty symbol the router answers with
\* the static clarification, creates no session and calls no provider.
C15_RouterInvokesEngineOnlyToAnalyze ==
    \A p \in Procs :
        LET r == req[p]
            intent == r.parsed_intent
        IN  (r.via = "nl" /\ r.pc # "idle") =>
            /\ r.engine_calls > 0 =>
                  /\ intent.j = "object"
                  /\ Get(intent.v, "action", JNull) = JStr("analyze")
                  /\ Get(intent.v, "symbol", JNull).j = "str"
                  /\ Get(intent.v, "symbol", JNull).v # ""
            /\ (/\ intent.j = "object"
                /\ \/ Get(intent.v, "action", JNull) # JStr("analyze")
                   \/ Get(intent.v, "symbol", JNull) \in {JNull, JStr("")}) =>
                  /\ r.pc = "done"
                  /\ r.response = "clarification"
                  /\ r.engine_calls = 0
                  /\ r.analysis_calls = 0
                  /\ r.trade_calls = 0
                  /\ r.session_id \notin DOMAIN sessions

\* C15 witness: with the Session Store and both endpoints configured, the
\* intent "buy AAPL, auto_execute true" was answered with the clarification.
C15_Witness ==
    /\ session_manager /\ MARKET_ANALYST_URL /\ STOCK_TRADER_URL
    /\ req[1].via = "nl"
    /\ req[1].pc = "done"
    /\ req[1].response = "clarification"
    /\ req[1].parsed_intent.j = "object"
    /\ Get(req[1].parsed_intent.v, "action", JNull) = JStr("buy")
    /\ Get(req[1].parsed_intent.v, "symbol", JNull) = JStr("AAPL")
    /\ Get(req[1].parsed_intent.v, "auto_execute", JNull) = JBool(TRUE)
    /\ sessions = <<>>

\* The reasoning call of parseIntent failed or its output is malformed: the
\* call raised, or the text holds no JSON value, or it holds one with other
\* text around it and no code fence.
C16_Malformed(answer) ==
    \/ answer.raised
    \/ \A i \in 1..Len(answer.text) : answer.text[i].tok # "json"
    \/ /\ Len(answer.text) > 1
       /\ \A i \in 1..Len(answer.text) :
             answer.text[i].tok \notin {"fence", "fence_json"}

\* C16: when the reasoning call of parseIntent fails or answers with
\* malformed output, the router gets the all-defaults intent (no symbol,
\* action unknown, quantity 100, analysis type technical, auto_execute false)
\* and the request ends with the clarification, without entering the engine
\* and without a call to the Execution Provider.
C16_FailedParsingGivesDefaults ==
    \A p \in Procs :
        LET r == req[p] IN
        (r.via = "nl" /\ r.pc # "idle" /\ C16_Malformed(r.intent_answer)) =>
            /\ r.parsed_intent =
                   JObj([symbol |-> JNull, action |-> JStr("unknown"),
                         quantity |-> JInt(100),
                         analysis_type |-> JStr("technical"),
                         auto_execute |-> JBool(FALSE)])
            /\ r.pc = "done"
            /\ r.response = "clarification"
            /\ r.engine_calls = 0
            /\ r.trade_calls = 0

\* C16 witness: the answer was the object "analyze AAPL, auto_execute true"
\* preceded by other text and without a code fence; json.loads rejected it
\* and the request ended with the clarification.
C16_Witness ==
    /\ session_manager /\ MARKET_ANALYST_URL /\ STOCK_TRADER_URL
    /\ req[1].via = "nl"
    /\ req[1].pc = "done"
    /\ ~req[1].intent_answer.raised
    /\ req[1].intent_answer.text =
           <<Prose, JsonText(JObj([symbol |-> JStr("AAPL"),
                                   action |-> JStr("analyze"),
                                   quantity |-> JInt(100),
                                   auto_execute |-> JBool(TRUE)]))>>
    /\ req[1].response = "clarification"
    /\ req[1].trade_calls = 0

\* C17: no answer of the Reasoning Provider, failed, malformed, not an intent
\* object or with wrongly typed fields, makes a request end with an error: a
\* request ends with an error only for a missing endpoint or a failed
\* provider call.
C17_ReasoningFailureIsNeverSurfaced ==
    \A p \in Procs :
        req[p].pc = "error" => req[p].error \in {"config", "upstream"}

\* The limits asked for in GET /users/{user_id}/trades.
TradeLimits == {1, 2}

\* C18: the trade history of a user is a flat list of TradeRecords of that
\* user's sessions, latest first, holding the `limit` most recent ones.
C18_TradeHistoryIsFlatAndSorted ==
    session_manager =>
    \A user_id \in Users, limit \in TradeLimits :
        LET res == get_user_trade_history(sessions, trades, user_id, limit)
            mine == { id \in DOMAIN trades :
                         /\ trades[id].session_id \in DOMAIN sessions
                         /\ sessions[trades[id].session_id].user_id = user_id }
        IN  /\ \A i \in 1..Len(res) : "trade_id" \in DOMAIN res[i]
            /\ \A i \in 1..Len(res) :
                  res[i].trade_id \in mine /\ res[i] = trades[res[i].trade_id]
            /\ \A i, k \in 1..Len(res) :
                  i < k => /\ res[i].created_at >= res[k].created_at
                           /\ res[i].trade_id # res[k].trade_id
            /\ Len(res) = IF Cardinality(mine) < limit
                          THEN Cardinality(mine) ELSE limit
            /\ \A id \in mine :
                  (\A i \in 1..Len(res) : res[i].trade_id # id) =>
                      \A i \in 1..Len(res) :
                          res[i].created_at >= trades[id].created_at

\* The trade history of C18 after the first trade of a user was saved: it is
\* a list with one element per session, each element a list of trades.
C18_NestedResult ==
    \E p \in Procs :
        /\ session_manager
        /\ req[p].trade_id # ""
        /\ get_user_trade_history(sessions, trades, req[p].user_id, 2) =
               <<PyList(<<trades[req[p].trade_id]>>)>>

\* C19: once a run has saved its analysis, the analysis history of its
\* session holds a record whose analysis_data is the data saved, and it still
\* does after every later save_analysis, for this or another session.
C19_SavedAnalysisStaysListed ==
    \A p \in Procs :
        (session_manager /\ req[p].analysis_id # "") =>
            LET history == get_session_analysis_history(analyses, req[p].session_id)
            IN  \E i \in 1..Len(history) :
                    history[i].analysis_data = req[p].analysis_data

\* The first half of C19: in the state reached by the save itself the record
\* is listed.
C19_ListedRightAfterSave ==
    [][ \A p \in Procs :
            (session_manager /\ req[p].analysis_id = "" /\ req'[p].analysis_id # "") =>
                LET history == get_session_analysis_history(analyses', req'[p].session_id)
                IN  \E i \in 1..Len(history) :
                        history[i].analysis_data = req'[p].analysis_data ]_vars

\* C21: for every stored session, created_at never changes and updated_at
\* never decreases; a successful update_session sets updated_at to the current
\* time whatever fields the caller passes, and leaves every field that the
\* update does not name as it was.
C21_TimestampsAreMonotonic ==
    [][ \A sid \in DOMAIN sessions :
            /\ sid \in DOMAIN sessions'
            /\ sessions'[sid].created_at = sessions[sid].created_at
            /\ sessions'[sid].updated_at >= sessions[sid].updated_at
            /\ (/\ call'.n # call.n
                /\ call'.fn = "update_session"
                /\ call'.session_id = sid
                /\ call'.result) =>
                  /\ sessions'[sid].updated_at = now
                  /\ \A f \in DOMAIN sessions[sid] \ (DOMAIN call'.arg \cup {"updated_at"}) :
                        sessions'[sid][f] = sessions[sid][f] ]_vars

\* The part of C21 about update_session alone: a successful call sets
\* updated_at to the current time.
C21_UpdateBumpsUpdatedAt ==
    [][ (call'.n # call.n /\ call'.fn = "update_session" /\ call'.result) =>
            sessions'[call'.session_id].updated_at = now ]_vars

\* The frame part of C21: a successful update_session leaves the fields it
\* does not name, other than updated_at, unchanged.
C21_UpdateFrame ==
    [][ (call'.n # call.n /\ call'.fn = "update_session" /\ call'.result) =>
            \A f \in DOMAIN sessions[call'.session_id] \ (DOMAIN call'.arg \cup {"updated_at"}) :
                sessions'[call'.session_id][f] = sessions[call'.session_id][f] ]_vars

\* C22: the initial_data of a stored session never changes: no later
\* operation and no later workflow run, also one that reuses the session id
\* with another symbol, quantity or auto_execute, changes the initial_data
\* recorded when the session was first created.
C22_InitialDataIsImmutable ==
    [][ \A sid \in DOMAIN sessions :
            /\ sid \in DOMAIN sessions'
            /\ sessions'[sid].initial_data = sessions[sid].initial_data ]_vars

\* The session id of run r was generated: the request supplied none.
GeneratedSessionId(r) ==
    /\ r.pc # "idle"
    /\ \E t \in 0..MaxTime :
          r.session_id = WorkflowSessionId("", r.user_id, r.symbol, t)

\* C23: two workflow requests that supply no session id never get the same
\* session id, also when they come from the same user for the same symbol
\* within the same second.
C23_GeneratedSessionIdsAreUnique ==
    \A p, q \in Procs :
        (p # q /\ GeneratedSessionId(req[p]) /\ GeneratedSessionId(req[q])) =>
            req[p].session_id # req[q].session_id

\* The closed enumeration of actions.
Actions == {"BUY", "SELL", "HOLD"}

\* C24: the action of every call to the Execution Provider (the run's
\* recommendation) and the action of every stored TradeRecord is BUY, SELL or
\* HOLD, whatever recommendation the Analysis Provider returned.
C24_ActionsAreInTheEnumeration ==
    /\ \A p \in Procs :
          req[p].trade_calls > 0 =>
              req[p].analysis_data.recommendation \in Actions
    /\ \A id \in DOMAIN trades :
          "action" \in DOMAIN trades[id].trade_data =>
              trades[id].trade_data.action \in Actions

\* C25: execute-trade answers by action.  BUY or SELL: a trade with status
\* EXECUTED and the symbol, action and quantity of the request.  HOLD: a trade
\* with status NO_ACTION and quantity 0.  Any other action: an error payload
\* without trade_id and without status.  Each is a normal (200) response.
C25_ExecuteTradeByAction ==
    (call.fn = "execute_trade" /\ call.returned) =>
        /\ call.status_code = 200
        /\ call.action \in {"BUY", "SELL"} =>
              /\ call.result.status = "EXECUTED"
              /\ call.result.symbol = call.symbol
              /\ call.result.action = call.action
              /\ call.result.quantity = call.quantity
        /\ call.action = "HOLD" =>
              /\ call.result.status = "NO_ACTION"
              /\ call.result.quantity = 0
        /\ call.action \notin {"BUY", "SELL", "HOLD"} =>
              /\ "error" \in DOMAIN call.result
              /\ "trade_id" \notin DOMAIN call.result
              /\ "status" \notin DOMAIN call.result

\* C25 witness: a HOLD request for 5 shares was answered with NO_ACTION and
\* quantity 0.
C25_Witness ==
    /\ call.fn = "execute_trade"
    /\ call.returned
    /\ call.action = "HOLD"
    /\ call.quantity = 5
    /\ call.result.status = "NO_ACTION"
    /\ call.result.quantity = 0

\* C26: when a workflow run returns a result, the returned status is
\* COMPLETED, ANALYSIS_ONLY or EXECUTION_DECLINED, the stored session has
\* status completed and the returned status as its workflow_status, and the
\* returned trade is non-null exactly when the status is COMPLETED.
C26_ReturnedStatusIsPersisted ==
    [][ \A p \in Procs :
            (req[p].pc # "done" /\ req'[p].pc = "done") =>
                LET r == req'[p] IN
                /\ r.workflow_status \in
                       {"COMPLETED", "ANALYSIS_ONLY", "EXECUTION_DECLINED"}
                /\ session_manager =>
                      /\ r.session_id \in DOMAIN sessions'
                      /\ sessions'[r.session_id].status = "completed"
                      /\ sessions'[r.session_id].workflow_status = r.workflow_status
                /\ (r.trade_data # None_) <=> (r.workflow_status = "COMPLETED")
      ]_vars

\* C26 witness: a persisted run returned EXECUTION_DECLINED without a trade,
\* and its session is stored as completed with that workflow status.
C26_Witness ==
    \E p \in Procs :
        /\ session_manager
        /\ req[p].pc = "done"
        /\ req[p].workflow_status = "EXECUTION_DECLINED"
        /\ req[p].trade_data = None_
        /\ sessions[req[p].session_id].status = "completed"
        /\ sessions[req[p].session_id].workflow_status = "EXECUTION_DECLINED"

\* C27: a run calls the Execution Provider at most once, and only after its
\* analysis call was answered with success and the decision policy returned
\* true with auto_execute true; a natural-language request starts at most
\* one workflow run.
C27_ExecutionIsCalledOnceAfterApproval ==
    \A p \in Procs :
        LET r == req[p] IN
        /\ r.trade_calls <= 1
        /\ r.analysis_calls <= 1
        /\ r.engine_calls <= 1
        /\ r.trade_calls > 0 =>
              /\ r.analysis_calls = 1
              /\ r.analysis_data # None_
              /\ r.should_execute
              /\ r.auto_execute

\* C27 witness: a natural-language request ran one workflow, whose reasoning
\* call answered, and called the Execution Provider once.
C27_Witness ==
    /\ req[1].via = "nl"
    /\ req[1].engine_calls = 1
    /\ req[1].trade_calls = 1
    /\ req[1].reasoning = "answered"
    /\ req[1].pc = "done"

\* C28: a run returns COMPLETED only if a trade was executed: the answer of
\* the Execution Provider, stored as the session's TradeRecord, has status
\* EXECUTED, and the log of a session that a single run uses holds
\* trade_requested followed by trade_executed.
C28_CompletedMeansExecuted ==
    \A p \in Procs :
        LET r == req[p] IN
        (r.pc = "done" /\ r.workflow_status = "COMPLETED") =>
            /\ r.trade_data # None_
            /\ Get(r.trade_data, "status", "None") = "EXECUTED"
            /\ SingleRunSession(p) =>
                  \E i, k \in 1..Len(StepTagsOf(r.session_id)) :
                      /\ i < k
                      /\ StepTagsOf(r.session_id)[i] = "trade_requested"
                      /\ StepTagsOf(r.session_id)[k] = "trade_executed"

\* The log part of C28 on its own.
C28_CompletedLogHasTradeSteps ==
    \A p \in Procs :
        (/\ req[p].pc = "done"
         /\ req[p].workflow_status = "COMPLETED"
         /\ SingleRunSession(p)) =>
            \E i, k \in 1..Len(StepTagsOf(req[p].session_id)) :
                /\ i < k
                /\ StepTagsOf(req[p].session_id)[i] = "trade_requested"
                /\ StepTagsOf(req[p].session_id)[k] = "trade_executed"

\* What C29 requires the report to say of a provider whose probe had the
\* given outcome.
C29_Expected(outcome) ==
    IF outcome.kind # "response" THEN "unreachable"
    ELSE IF outcome.status_code = 200 THEN "healthy"
    ELSE "unhealthy"

\* C29: the health report of each configured provider follows from that
\* provider's probe alone: unreachable when the probe fails, unhealthy for a
\* status other than 200, healthy for 200.
C29_ProvidersAreReportedIndependently ==
    (call.fn = "check_services_health" /\ call.pc = "done") =>
        /\ MARKET_ANALYST_URL =>
              call.health_status.market_analyst = C29_Expected(call.analyst_probe)
        /\ STOCK_TRADER_URL =>
              call.health_status.stock_trader = C29_Expected(call.trader_probe)

\* The stock trader's half of C29.
C29_TraderIsReported ==
    (call.fn = "check_services_health" /\ call.pc = "done" /\ STOCK_TRADER_URL) =>
        call.health_status.stock_trader = C29_Expected(call.trader_probe)

\* The price change of a symbol's market data, in tenths of a percent.
C30_PriceChange(symbol) ==
    CASE symbol = "AAPL" -> 25
      [] symbol = "GOOGL" -> 3
      [] symbol = "TSLA" -> -32
      [] OTHER -> 0

\* C30: when the analyst's reasoning call fails, analyze still answers, with
\* the fallback analysis: BUY at confidence 0.75 for a price change above
\* +2.0%, SELL at 0.70 below -2.0%, otherwise HOLD at 0.60.
C30_AnalystFallsBack ==
    (call.fn = "analyze_market" /\ call.returned /\ call.llm.raised) =>
        /\ call.result.status_code = 200
        /\ call.result.recommendation =
               IF C30_PriceChange(call.symbol) > 20 THEN "BUY"
               ELSE IF C30_PriceChange(call.symbol) < -20 THEN "SELL"
               ELSE "HOLD"
        /\ call.result.confidence =
               IF C30_PriceChange(call.symbol) > 20 THEN 75
               ELSE IF C30_PriceChange(call.symbol) < -20 THEN 70
               ELSE 60

====
